---------------------------- MODULE Spec2Model ----------------------------
(***************************************************************************)
(* Model of the latency tracker: the Metric (storage.go), the MetricStore  *)
(* registry (storage.go), the percentile engine (storage.go) and the HTTP  *)
(* handlers (server.go).                                                   *)
(*                                                                         *)
(* Goroutines are the threads of the model.  Every call is cut into steps  *)
(* at the points where the Go code can be interleaved with another         *)
(* goroutine: reading the clock, acquiring a mutex, and the critical       *)
(* section together with its unlock.                                       *)
(*                                                                         *)
(* Time is an integer clock; one clock unit is 30 seconds, so that         *)
(* time.Minute is 2 units.  Durations (latencies) are integers, in         *)
(* milliseconds.                                                           *)
(***************************************************************************)
EXTENDS Integers, Sequences, FiniteSets, TLC

VARIABLES
    now,        \* the wall clock read by time.Now()
    Metrics,    \* MetricStore.Metrics: identifier -> address of a Metric
    MetricsNil, \* MetricStore.Metrics is the nil map (reads as empty, a write panics)
    storeMu,    \* MetricStore.mu: the RWMutex of the registry
    heap,       \* the Metric objects ever allocated, by address (1..Len(heap))
    th,         \* per goroutine: position, arguments, locals and results
    hist,       \* ghost: per Metric, every sample RecordLatency appended, in order
    req,        \* per goroutine: the HTTP request it serves and the handler's locals
    pctIn,      \* percentile engine harness: the latencies handed to it
    pctP,       \* percentile engine harness: the percentile asked for
    pctOut,     \* percentile engine harness: computePercentile's result
    pctSnap,    \* percentile engine harness: the snapshot built from pctIn
    pctPc       \* percentile engine harness: "in" before the call, "out" after

vars == <<now, Metrics, MetricsNil, storeMu, heap, th, hist, req,
          pctIn, pctP, pctOut, pctSnap, pctPc>>

pctVars == <<pctIn, pctP, pctOut, pctSnap, pctPc>>

---------------------------------------------------------------------------
(* Bounds of the model *)

\* the clock runs from 0 to MaxClock
MaxClock == 1
\* at most MaxObjs Metric objects are ever allocated
MaxObjs == 2
\* at most MaxRecords samples are ever appended, over all Metrics
MaxRecords == 3
\* under fair scheduling, at most MaxLiveObjs Metrics are ever allocated and
\* at most MaxLiveRecords samples are ever appended
MaxLiveObjs == 1
MaxLiveRecords == 1
\* the percentile harness takes every sequence over Durations up to this length
MaxLen == 3
\* ... and the sequences <<1, 2, ..., n>> for n up to MaxRamp
MaxRamp == 25

(* Program constants *)

\* time.Minute, in clock units of 30 seconds
DefaultWindow == 2
DefaultMaxSamples == 100

Threads == {"g1", "g2"}
IDs == {"a", "b"}
\* latencies a caller passes to RecordLatency: 10ms, 20ms, 30ms, and two
\* values the code must reject
Latencies == {10, 20, 30}
BadLatencies == {0, -10}
\* durations handed to the percentile engine (zero is a legal duration there)
Durations == {0, 10, 20, 30}
Percentiles == 0..100

---------------------------------------------------------------------------
(* *time.Duration: nil, or a pointer to a value *)

Nil == [isNil |-> TRUE, val |-> 0]
Ptr(v) == [isNil |-> FALSE, val |-> v]

---------------------------------------------------------------------------
(* float64 arithmetic of computePercentile, storage.go line 89:             *)
(*   int(math.Ceil((float64(percentile) / 100.0) * float64(N)))             *)
(* modelled exactly for 0 <= percentile <= 100 and 1 <= N < 2^31 with       *)
(* small integers.                                                          *)
(*                                                                          *)
(* x = float64(p)/100.0 is p/100 rounded to 53 significant bits (round to   *)
(* nearest, ties to even).  With 2^-a <= p/100 < 2^(1-a) and s = 52 + a,    *)
(* x = q / 2^s where q is p*2^s/100 rounded to an integer, so               *)
(*   x = p/100 + e / (100 * 2^s),   e = 100*q - p*2^s,   -50 <= e <= 50.    *)
(* y = x * float64(N) is p*N/100 + e*N/(100*2^s) rounded to 53 bits.        *)
(* If 100 does not divide p*N, p*N/100 is at least 1/100 away from every    *)
(* integer and the two roundings move it by less than N/2^51: Ceil(y) is    *)
(* the exact ceiling.  If p*N = 100*k, then y > k exactly when e > 0 and    *)
(* e*N/(100*2^s) is more than half the spacing 2^(j-52) of the doubles in   *)
(* [2^j, 2^(j+1)) that holds k, that is when e*N > 50 * 2^(a+j); Ceil(y)    *)
(* is then k+1, and k otherwise.                                            *)

RECURSIVE Pow2(_)
Pow2(n) == IF n = 0 THEN 1 ELSE 2 * Pow2(n - 1)

\* 2^n modulo m
RECURSIVE Pow2Mod(_, _)
Pow2Mod(n, m) == IF n = 0 THEN 1 % m ELSE (2 * Pow2Mod(n - 1, m)) % m

\* the a with 2^-a <= p/100 < 2^(1-a), for 1 <= p <= 100
RECURSIVE BinadeBelow(_, _)
BinadeBelow(p, a) == IF p * Pow2(a) >= 100 THEN a ELSE BinadeBelow(p, a + 1)

\* the j with 2^j <= k < 2^(j+1), for k >= 1
RECURSIVE BinadeOf(_, _)
BinadeOf(k, j) == IF Pow2(j + 1) > k THEN j ELSE BinadeOf(k, j + 1)

\* e: the rounding error of float64(p)/100.0, in units of 1/(100 * 2^s)
DivRoundErr(p) ==
    LET s == 52 + BinadeBelow(p, 0)
        r0 == (p * Pow2Mod(s, 100)) % 100
        q0odd == ((p * Pow2Mod(s, 200)) % 200) >= 100
        up == (2 * r0 > 100) \/ (2 * r0 = 100 /\ q0odd)
    IN  IF up THEN 100 - r0 ELSE 0 - r0

\* int(math.Ceil((float64(p) / 100.0) * float64(N)))
CeilFloatMul(p, N) ==
    IF p = 0 THEN 0
    ELSE LET k == (p * N) \div 100
             r1 == (p * N) % 100
         IN  IF r1 > 0 THEN k + 1
             ELSE IF /\ DivRoundErr(p) > 0
                     /\ DivRoundErr(p) * N >
                          50 * Pow2(BinadeBelow(p, 0) + BinadeOf(k, 0))
                  THEN k + 1
                  ELSE k

---------------------------------------------------------------------------
(* The percentile engine, storage.go lines 84-98 *)

\* a plausible slip: the rank taken from the top of the slice
computePercentileDesc(latencies, percentile) ==
    LET N == Len(latencies)
        raw == CeilFloatMul(percentile, N) - 1
        lo == IF raw < 0 THEN 0 ELSE raw
        idx == IF lo >= N THEN N - 1 ELSE lo
    IN  IF N = 0 THEN Nil ELSE Ptr(latencies[N - idx])

computePercentile(latencies, percentile) ==
    LET N == Len(latencies)
        raw == CeilFloatMul(percentile, N) - 1
        lo == IF raw < 0 THEN 0 ELSE raw
        idxPercentile == IF lo >= N THEN N - 1 ELSE lo
    IN  IF N = 0 THEN Nil
        ELSE Ptr(latencies[idxPercentile + 1])   \* Go slices count from 0

(* sort.Slice(latencies, less) with less = "<", storage.go line 74 *)
RECURSIVE Insert(_, _)
Insert(v, s) ==
    IF s = <<>> THEN <<v>>
    ELSE IF v < Head(s) THEN <<v>> \o s
    ELSE <<Head(s)>> \o Insert(v, Tail(s))

RECURSIVE SortAsc(_)
SortAsc(s) == IF s = <<>> THEN <<>> ELSE Insert(Head(s), SortAsc(Tail(s)))


---------------------------------------------------------------------------
(* Data model, src/unnamed/part_001 *)

\* the nil *Metric
NullRef == 0
NoThread == "none"

\* the fields of MetricConfig the program reads; Percentiles and CreatedAt
\* are stored and never read
MetricConfig(id, window, maxSamples) ==
    [ID |-> id, Window |-> window, MaxSamples |-> maxSamples]

NoConfig == MetricConfig("", 0, 0)

LatencySample(latency, recordedAt) ==
    [LatencyVal |-> latency, RecordedAt |-> recordedAt]

\* &Metric{Config: config, Samples: make([]LatencySample, 0)}, mutex unlocked;
\* "by" is a ghost field: the function that allocated the Metric
NewMetric(config, by) ==
    [Config |-> config, Samples |-> <<>>, mu |-> NoThread, by |-> by]

\* the zero MetricSnapshot
NoSnapshot ==
    [MetricID |-> "", Window |-> 0, Count |-> 0, P50 |-> Nil, P95 |-> Nil, P99 |-> Nil]

\* a plausible slip: the Metric made with the zero MetricConfig but for its ID
zeroMetricConfig(id) == MetricConfig(id, 0, 0)

\* server.go lines 24-31
defaultMetricConfig(id) == MetricConfig(id, DefaultWindow, DefaultMaxSamples)

---------------------------------------------------------------------------
(* Pure parts of Metric.RecordLatency and Metric.CalculateLatency *)

\* a plausible slip: zero accepted
RejectedNegativeOnly(latency) == latency < 0

\* storage.go line 17
Rejected(latency) == latency <= 0

\* a plausible slip: the newest sample dropped instead of the oldest
AppendEvictNewest(samples, sample, maxSamples) ==
    LET appended == Append(samples, sample)
    IN  IF Len(appended) > maxSamples
        THEN SubSeq(appended, 1, Len(appended) - 1)
        ELSE appended

\* a plausible slip: the sample appended, the eviction left out
AppendOnly(samples, sample, maxSamples) == Append(samples, sample)

\* storage.go lines 26-30: append, then drop the head once if over the cap
AppendEvict(samples, sample, maxSamples) ==
    LET appended == Append(samples, sample)
    IN  IF Len(appended) > maxSamples THEN Tail(appended) ELSE appended

\* a plausible slip: the boundary sample kept
NotBefore(recordedAt, cutoff) == recordedAt >= cutoff

\* storage.go line 55: record.RecordedAt.After(cutoff)
After(recordedAt, cutoff) == recordedAt > cutoff

\* storage.go lines 54-58: the samples after the cutoff, in stored order
ActiveSamples(samples, cutoff) ==
    LET keep(record) == After(record.RecordedAt, cutoff)
    IN  SelectSeq(samples, keep)

\* a plausible slip: the latencies left in recording order
Unsorted(latencies) == latencies

\* storage.go line 74
SortLatencies(latencies) == SortAsc(latencies)

\* a plausible slip: percentiles only when more than one sample is active
BuildSnapshotOffByOne(config, active) ==
    LET latencies == [i \in 1..Len(active) |-> active[i].LatencyVal]
        sorted == SortLatencies(latencies)
    IN  [MetricID |-> config.ID, Window |-> config.Window, Count |-> Len(active),
         P50 |-> IF Len(active) > 1 THEN computePercentile(sorted, 50) ELSE Nil,
         P95 |-> IF Len(active) > 1 THEN computePercentile(sorted, 95) ELSE Nil,
         P99 |-> IF Len(active) > 1 THEN computePercentile(sorted, 99) ELSE Nil]

\* storage.go lines 64-81
BuildSnapshot(config, active) ==
    LET latencies == [i \in 1..Len(active) |-> active[i].LatencyVal]
        sorted == SortLatencies(latencies)
    IN  [MetricID |-> config.ID, Window |-> config.Window, Count |-> Len(active),
         P50 |-> IF Len(active) > 0 THEN computePercentile(sorted, 50) ELSE Nil,
         P95 |-> IF Len(active) > 0 THEN computePercentile(sorted, 95) ELSE Nil,
         P99 |-> IF Len(active) > 0 THEN computePercentile(sorted, 99) ELSE Nil]

---------------------------------------------------------------------------
(* The registry map *)

EmptyMap == [id \in {} |-> NullRef]

\* a plausible slip: the existing entry never found
LookupMiss(map, id) == [m |-> NullRef, ok |-> FALSE]

\* a plausible slip: the missing entry reported as found
LookupAlwaysOk(map, id) ==
    [m |-> IF id \in DOMAIN map THEN map[id] ELSE NullRef, ok |-> TRUE]

\* metric, ok := ms.Metrics[id]   (storage.go lines 134 and 145)
Lookup(map, id) ==
    IF id \in DOMAIN map THEN [m |-> map[id], ok |-> TRUE]
    ELSE [m |-> NullRef, ok |-> FALSE]

\* a plausible slip: the entry put into a map of its own
MapInsertAlone(map, id, m) == [j \in {id} |-> m]

\* ms.Metrics[config.ID] = metric   (storage.go line 126)
MapInsert(map, id, m) == [j \in (DOMAIN map) \cup {id} |-> IF j = id THEN m ELSE map[j]]

\* a plausible slip: the make left out, as in CreateMetric
MakeMapSkipped(isNil) == isNil

\* ms.Metrics = make(map[string]*Metric)   (storage.go line 153): whether the
\* mapping is nil afterwards
MakeMap(isNil) == FALSE

\* ms.Metrics = make(map[string]*Metric); ms.Metrics[id] = metric
\* (storage.go lines 153-154)
MapResetInsert(map, id, m) == MapInsert(EmptyMap, id, m)

---------------------------------------------------------------------------
(* Goroutines *)

\* a goroutine that has not called anything yet
IdleThread ==
    [pc |-> "idle",         \* where the goroutine stands
     op |-> "none",         \* the function it is in, or the last one it returned from
     id |-> "",             \* argument: getMetric's and getOrCreateMetric's id
     cfg |-> NoConfig,      \* argument: CreateMetric's config
     lat |-> 0,             \* argument: RecordLatency's latency
     m |-> NullRef,         \* receiver of RecordLatency / CalculateLatency
     ts |-> 0,              \* RecordLatency: the time.Now() of the sample
     at |-> 0,              \* CalculateLatency: the time.Now() of the query
     cutoff |-> 0,          \* CalculateLatency: cutoff
     active |-> <<>>,       \* CalculateLatency: active
     ref |-> NullRef,       \* the *Metric the caller got from its last registry call
     found |-> FALSE,       \* getMetric's second result
     ok |-> FALSE,          \* RecordLatency's result; CreateMetric's err == nil
     snap |-> NoSnapshot]   \* CalculateLatency's result

\* a new call: arguments and locals of the previous one are gone, the
\* caller keeps the *Metric it holds
Fresh(t, op) == [IdleThread EXCEPT !.op = op, !.ref = th[t].ref]

\* the return: arguments and locals are gone, the results are set by the caller
\* of this operator
Return(t) == [IdleThread EXCEPT !.op = th[t].op, !.ref = th[t].ref]

\* the goroutine panics with "assignment to entry in nil map": the call never
\* returns (the deferred Unlock still runs), the Metric it had allocated is
\* garbage
Panic(t) == [IdleThread EXCEPT !.op = th[t].op, !.pc = "panic"]

At(t, pc) == th[t].pc = pc

Unlocked == [w |-> NoThread, r |-> {}]

\* a plausible slip: the read section entered whatever the lock's state
RLockableAlways(mu) == TRUE

\* ms.mu.RLock() goes through when no writer holds the lock
RLockable(mu) == mu.w = NoThread

\* a plausible slip: the read lock kept
RUnlockForgotten(mu, t) == mu

\* ms.mu.RUnlock()
RUnlock(mu, t) == [mu EXCEPT !.r = @ \ {t}]

\* calls in flight that will still append a sample
Appending == {t \in DOMAIN th : th[t].pc \in {"rec_lock", "rec_body"}}

RECURSIVE TotalLen(_)
TotalLen(seqs) == IF seqs = <<>> THEN 0 ELSE Len(Head(seqs)) + TotalLen(Tail(seqs))

\* Metrics are allocated under the registry's exclusive lock only, so the
\* bound on allocations is checked where that lock is taken
CanAllocate == Len(heap) < MaxObjs
RecordBudget == MaxRecords - TotalLen(hist) - Cardinality(Appending)

---------------------------------------------------------------------------
(* HTTP requests, server.go.  net/http serves every request on a goroutine  *)
(* of its own; req[t] is the request goroutine t serves and the locals of   *)
(* its handler.                                                             *)

\* a request body: not JSON at all, or a JSON object whose latency_ns is n
\* (an object without the field decodes as n = 0)
InvalidJSON == [json |-> FALSE, latency_ns |-> 0]
JSONBody(n) == [json |-> TRUE, latency_ns |-> n]

\* json.NewDecoder(r.Body).Decode(&rq), server.go lines 95-96
Decode(body) ==
    [err |-> ~body.json,
     LatencyNs |-> IF body.json THEN body.latency_ns ELSE 0]

\* no request served yet
NoRequest ==
    [h |-> "none",          \* the handler
     hpc |-> "none",        \* "run" inside the handler, "done" after the answer
     id |-> "",             \* the {id} of the path
     LatencyNs |-> 0,       \* handleRecordLatency: rq.LatencyNs
     metrics |-> <<>>,      \* handleMetrics: metrics
     snapshots |-> <<>>,    \* handleMetrics: snapshots; handleGetMetric: the snapshot
     status |-> 0]          \* the HTTP status answered

\* the goroutine is free to serve a request
Free(t) == req[t].hpc \in {"none", "done"} /\ At(t, "idle")

\* the goroutine is inside handler h, between two calls
InHandler(t, h) == req[t].h = h /\ req[t].hpc = "run" /\ At(t, "idle")

\* the handler answers: its locals are gone, the answer stays
Answer(h, status, snapshots) ==
    [NoRequest EXCEPT !.h = h, !.hpc = "done", !.status = status,
                      !.snapshots = snapshots]

---------------------------------------------------------------------------
(* createNewMetricStore, storage.go lines 105-110 *)

createNewMetricStore ==
    /\ Metrics = EmptyMap
    /\ MetricsNil = FALSE
    /\ storeMu = Unlocked
    /\ MetricsNil = FALSE

PctIdle ==
    /\ pctIn = <<>>
    /\ pctP = 0
    /\ pctOut = Nil
    /\ pctSnap = NoSnapshot
    /\ pctPc = "off"

Init ==
    /\ now = 0
    /\ createNewMetricStore
    /\ heap = <<>>
    /\ th = [t \in Threads |-> IdleThread]
    /\ req = [t \in DOMAIN th |-> NoRequest]
    /\ hist = <<>>
    /\ PctIdle

\* the wall clock advances
Tick ==
    /\ now < MaxClock
    /\ now' = now + 1
    /\ UNCHANGED <<Metrics, storeMu, heap, th, hist>>
    /\ UNCHANGED <<req, MetricsNil, pctVars>>

---------------------------------------------------------------------------
(* MetricStore.CreateMetric, storage.go lines 112-128 *)

\* a plausible slip: only the window validated
InvalidConfigWindowOnly(config) == config.Window <= 0

\* lines 113-118: the configs CreateMetric answers with an error
InvalidConfig(config) == config.Window <= 0 \/ config.MaxSamples <= 0

\* the call and lines 113-122: validation, the Metric is built
CallCreateMetric(t, config) ==
    /\ At(t, "idle")
    /\ CanAllocate
    /\ IF InvalidConfig(config)
       THEN th' = [th EXCEPT ![t] = [Fresh(t, "CreateMetric") EXCEPT
                       !.cfg = config, !.ref = NullRef, !.ok = FALSE]]
       ELSE th' = [th EXCEPT ![t] = [Fresh(t, "CreateMetric") EXCEPT
                       !.cfg = config, !.pc = "create_lock"]]
    /\ UNCHANGED <<now, Metrics, storeMu, heap, hist>>
    /\ UNCHANGED <<req, MetricsNil, pctVars>>

\* line 124: ms.mu.Lock()
CreateLock(t) ==
    /\ At(t, "create_lock")
    /\ CanAllocate
    /\ storeMu = Unlocked
    /\ storeMu' = [w |-> t, r |-> {}]
    /\ th' = [th EXCEPT ![t].pc = "create_body"]
    /\ UNCHANGED <<now, Metrics, heap, hist>>
    /\ UNCHANGED <<req, MetricsNil, pctVars>>

\* lines 126-127 and the deferred Unlock
CreateBody(t) ==
    /\ At(t, "create_body")
    /\ LET metric == Len(heap) + 1
       IN  IF MetricsNil
           THEN \* line 126 writes to the nil map
                /\ th' = [th EXCEPT ![t] = Panic(t)]
                /\ UNCHANGED <<Metrics, heap, hist>>
           ELSE /\ heap' = Append(heap, NewMetric(th[t].cfg, "CreateMetric"))
                /\ hist' = Append(hist, <<>>)
                /\ Metrics' = MapInsert(Metrics, th[t].cfg.ID, metric)
                /\ th' = [th EXCEPT ![t] = [Return(t) EXCEPT !.ref = metric, !.ok = TRUE]]
    /\ storeMu' = Unlocked
    /\ now' = now
    /\ UNCHANGED <<req, MetricsNil, pctVars>>

---------------------------------------------------------------------------
(* MetricStore.getMetric, storage.go lines 130-136 *)

CallGetMetric(t, id) ==
    /\ At(t, "idle")
    /\ th' = [th EXCEPT ![t] = [Fresh(t, "getMetric") EXCEPT !.id = id, !.pc = "get_rlock"]]
    /\ UNCHANGED <<now, Metrics, storeMu, heap, hist>>
    /\ UNCHANGED <<req, MetricsNil, pctVars>>

\* line 131: ms.mu.RLock()
GetRLock(t) ==
    /\ At(t, "get_rlock")
    /\ RLockable(storeMu)
    /\ storeMu' = [storeMu EXCEPT !.r = @ \cup {t}]
    /\ th' = [th EXCEPT ![t].pc = "get_body"]
    /\ UNCHANGED <<now, Metrics, heap, hist>>
    /\ UNCHANGED <<req, MetricsNil, pctVars>>

\* lines 134-135 and the deferred RUnlock
GetBody(t) ==
    /\ At(t, "get_body")
    /\ LET res == Lookup(Metrics, th[t].id)
       IN  th' = [th EXCEPT ![t] = [Return(t) EXCEPT !.ref = res.m, !.found = res.ok]]
    /\ storeMu' = RUnlock(storeMu, t)
    /\ UNCHANGED <<now, Metrics, heap, hist>>
    /\ UNCHANGED <<req, MetricsNil, pctVars>>

---------------------------------------------------------------------------
(* MetricStore.getOrCreateMetric, storage.go lines 138-156 *)

CallGetOrCreateMetric(t, id) ==
    /\ At(t, "idle")
    /\ CanAllocate \/ id \in DOMAIN Metrics
    /\ th' = [th EXCEPT ![t] = [Fresh(t, "getOrCreateMetric") EXCEPT !.id = id, !.pc = "goc_lock"]]
    /\ UNCHANGED <<now, Metrics, storeMu, heap, hist>>
    /\ UNCHANGED <<req, MetricsNil, pctVars>>

\* line 142: ms.mu.Lock()
GetOrCreateLock(t) ==
    /\ At(t, "goc_lock")
    /\ CanAllocate \/ th[t].id \in DOMAIN Metrics
    /\ storeMu = Unlocked
    /\ storeMu' = [w |-> t, r |-> {}]
    /\ th' = [th EXCEPT ![t].pc = "goc_body"]
    /\ UNCHANGED <<now, Metrics, heap, hist>>
    /\ UNCHANGED <<req, MetricsNil, pctVars>>

\* lines 145-155 and the deferred Unlock
GetOrCreateBody(t) ==
    /\ At(t, "goc_body")
    /\ LET id == th[t].id
           res == Lookup(Metrics, id)
           metric == Len(heap) + 1
       IN  IF res.ok
           THEN /\ th' = [th EXCEPT ![t] = [Return(t) EXCEPT !.ref = res.m]]
                /\ UNCHANGED <<Metrics, MetricsNil, heap, hist>>
           ELSE IF MakeMap(MetricsNil)
                THEN \* line 154 writes to the nil map
                     /\ th' = [th EXCEPT ![t] = Panic(t)]
                     /\ UNCHANGED <<Metrics, MetricsNil, heap, hist>>
                ELSE /\ heap' = Append(heap, NewMetric(defaultMetricConfig(id),
                                                      "getOrCreateMetric"))
                     /\ hist' = Append(hist, <<>>)
                     /\ MetricsNil' = MakeMap(MetricsNil)
                     /\ Metrics' = MapResetInsert(Metrics, id, metric)
                     /\ th' = [th EXCEPT ![t] = [Return(t) EXCEPT !.ref = metric]]
    /\ storeMu' = Unlocked
    /\ now' = now
    /\ UNCHANGED <<req, pctVars>>

---------------------------------------------------------------------------
(* Metric.RecordLatency, storage.go lines 16-32, on the *Metric the caller holds *)

\* the call and lines 17-21: the check, then the sample with time.Now()
CallRecordLatency(t, latency) ==
    /\ At(t, "idle")
    /\ th[t].ref # NullRef
    /\ IF Rejected(latency)
       THEN th' = [th EXCEPT ![t] = [Fresh(t, "RecordLatency") EXCEPT
                       !.lat = latency, !.ok = FALSE]]
       ELSE /\ RecordBudget > 0
            /\ th' = [th EXCEPT ![t] = [Fresh(t, "RecordLatency") EXCEPT
                       !.m = th[t].ref, !.lat = latency, !.ts = now, !.pc = "rec_lock"]]
    /\ UNCHANGED <<now, Metrics, storeMu, heap, hist>>
    /\ UNCHANGED <<req, MetricsNil, pctVars>>

\* line 23: m.mu.Lock()
RecordLock(t) ==
    /\ At(t, "rec_lock")
    /\ heap[th[t].m].mu = NoThread
    /\ heap' = [heap EXCEPT ![th[t].m].mu = t]
    /\ th' = [th EXCEPT ![t].pc = "rec_body"]
    /\ UNCHANGED <<now, Metrics, storeMu, hist>>
    /\ UNCHANGED <<req, MetricsNil, pctVars>>

\* lines 26-31 and the deferred Unlock
RecordBody(t) ==
    /\ At(t, "rec_body")
    /\ LET m == th[t].m
           sample == LatencySample(th[t].lat, th[t].ts)
       IN  /\ heap' = [heap EXCEPT
                  ![m].Samples = AppendEvict(@, sample, heap[m].Config.MaxSamples),
                  ![m].mu = NoThread]
           /\ hist' = [hist EXCEPT ![m] = Append(@, sample)]
    /\ th' = [th EXCEPT ![t] = [Return(t) EXCEPT !.ok = TRUE]]
    /\ UNCHANGED <<now, Metrics, storeMu>>
    /\ UNCHANGED <<req, MetricsNil, pctVars>>

---------------------------------------------------------------------------
(* Metric.CalculateLatency, storage.go lines 34-82, on the *Metric the caller holds *)

\* the call and line 38: cutoff := time.Now().Add(-m.Config.Window)
CallCalculateLatency(t) ==
    /\ At(t, "idle")
    /\ th[t].ref # NullRef
    /\ th' = [th EXCEPT ![t] = [Fresh(t, "CalculateLatency") EXCEPT
                  !.m = th[t].ref, !.at = now,
                  !.cutoff = now - heap[th[t].ref].Config.Window,
                  !.pc = "calc_lock"]]
    /\ UNCHANGED <<now, Metrics, storeMu, heap, hist>>
    /\ UNCHANGED <<req, MetricsNil, pctVars>>

\* line 53: m.mu.Lock()
CalculateLock(t) ==
    /\ At(t, "calc_lock")
    /\ heap[th[t].m].mu = NoThread
    /\ heap' = [heap EXCEPT ![th[t].m].mu = t]
    /\ th' = [th EXCEPT ![t].pc = "calc_body"]
    /\ UNCHANGED <<now, Metrics, storeMu, hist>>
    /\ UNCHANGED <<req, MetricsNil, pctVars>>

\* a plausible slip: the samples outside the window dropped from storage
CalculateBodyPruning(t) ==
    /\ At(t, "calc_body")
    /\ th' = [th EXCEPT ![t].pc = "calc_snap",
                        ![t].active = ActiveSamples(heap[th[t].m].Samples, th[t].cutoff)]
    /\ heap' = [heap EXCEPT
           ![th[t].m].Samples = ActiveSamples(@, th[t].cutoff),
           ![th[t].m].mu = NoThread]
    /\ UNCHANGED <<now, Metrics, storeMu, hist>>
    /\ UNCHANGED <<req, MetricsNil, pctVars>>

\* lines 54-62: the active samples are collected, then m.mu.Unlock()
CalculateBody(t) ==
    /\ At(t, "calc_body")
    /\ th' = [th EXCEPT ![t].pc = "calc_snap",
                        ![t].active = ActiveSamples(heap[th[t].m].Samples, th[t].cutoff)]
    /\ heap' = [heap EXCEPT ![th[t].m].mu = NoThread]
    /\ UNCHANGED <<now, Metrics, storeMu, hist>>
    /\ UNCHANGED <<req, MetricsNil, pctVars>>

\* lines 64-81: the snapshot, built without any lock
CalculateSnapshot(t) ==
    /\ At(t, "calc_snap")
    /\ th' = [th EXCEPT ![t] = [Return(t) EXCEPT
                  !.snap = BuildSnapshot(heap[th[t].m].Config, th[t].active)]]
    /\ UNCHANGED <<now, Metrics, storeMu, heap, hist>>
    /\ UNCHANGED <<req, MetricsNil, pctVars>>

---------------------------------------------------------------------------
(* Server.handleRecordLatency, server.go lines 91-108 *)

\* handlers in flight that will still append a sample
Posting ==
    {t \in DOMAIN th : /\ req[t].h = "handleRecordLatency"
                       /\ req[t].hpc = "run"
                       /\ th[t].op # "RecordLatency"}

\* a plausible slip: zero let through
BadLatencyNsNegativeOnly(n) == n < 0

\* line 100
BadLatencyNs(n) == n <= 0

\* the request arrives; lines 95-103: the body is decoded and checked
HandleRecordLatency(t, id, body) ==
    /\ Free(t)
    /\ LET rq == Decode(body)
       IN  IF rq.err \/ BadLatencyNs(rq.LatencyNs)
           THEN req' = [req EXCEPT ![t] = Answer("handleRecordLatency", 400, <<>>)]
           ELSE /\ CanAllocate \/ id \in DOMAIN Metrics
                /\ RecordBudget - Cardinality(Posting) > 0
                /\ req' = [req EXCEPT ![t] = [NoRequest EXCEPT
                               !.h = "handleRecordLatency", !.hpc = "run",
                               !.id = id, !.LatencyNs = rq.LatencyNs]]
    /\ th' = [th EXCEPT ![t] = IdleThread]
    /\ UNCHANGED <<now, Metrics, storeMu, heap, hist>>
    /\ UNCHANGED <<MetricsNil, pctVars>>

\* line 105: m := s.store.getOrCreateMetric(id)
HandleRecordLatencyGetOrCreate(t) ==
    /\ InHandler(t, "handleRecordLatency")
    /\ th[t].op = "none"
    /\ CallGetOrCreateMetric(t, req[t].id)

\* line 106: m.RecordLatency(time.Duration(rq.LatencyNs))
HandleRecordLatencyRecord(t) ==
    /\ InHandler(t, "handleRecordLatency")
    /\ th[t].op = "getOrCreateMetric"
    /\ CallRecordLatency(t, req[t].LatencyNs)

\* line 107: w.WriteHeader(http.StatusAccepted)
HandleRecordLatencyAccepted(t) ==
    /\ InHandler(t, "handleRecordLatency")
    /\ th[t].op = "RecordLatency"
    /\ req' = [req EXCEPT ![t] = Answer("handleRecordLatency", 202, <<>>)]
    /\ UNCHANGED <<now, Metrics, storeMu, heap, th, hist>>
    /\ UNCHANGED <<MetricsNil, pctVars>>

---------------------------------------------------------------------------
(* Server.handleGetMetric, server.go lines 110-120 *)

\* the request arrives
HandleGetMetric(t, id) ==
    /\ Free(t)
    /\ req' = [req EXCEPT ![t] = [NoRequest EXCEPT
                   !.h = "handleGetMetric", !.hpc = "run", !.id = id]]
    /\ th' = [th EXCEPT ![t] = IdleThread]
    /\ UNCHANGED <<now, Metrics, storeMu, heap, hist>>
    /\ UNCHANGED <<MetricsNil, pctVars>>

\* line 111: metric, ok := s.store.getMetric(id)
HandleGetMetricLookup(t) ==
    /\ InHandler(t, "handleGetMetric")
    /\ th[t].op = "none"
    /\ CallGetMetric(t, req[t].id)

\* lines 112-115: 404
HandleGetMetricNotFound(t) ==
    /\ InHandler(t, "handleGetMetric")
    /\ th[t].op = "getMetric"
    /\ ~th[t].found
    /\ req' = [req EXCEPT ![t] = Answer("handleGetMetric", 404, <<>>)]
    /\ UNCHANGED <<now, Metrics, storeMu, heap, th, hist>>
    /\ UNCHANGED <<MetricsNil, pctVars>>

\* line 116: snapshot := metric.CalculateLatency()
HandleGetMetricCalculate(t) ==
    /\ InHandler(t, "handleGetMetric")
    /\ th[t].op = "getMetric"
    /\ th[t].found
    /\ CallCalculateLatency(t)

\* lines 118-119: the snapshot is written, with the implicit 200
HandleGetMetricAnswer(t) ==
    /\ InHandler(t, "handleGetMetric")
    /\ th[t].op = "CalculateLatency"
    /\ req' = [req EXCEPT ![t] = Answer("handleGetMetric", 200, <<th[t].snap>>)]
    /\ UNCHANGED <<now, Metrics, storeMu, heap, th, hist>>
    /\ UNCHANGED <<MetricsNil, pctVars>>

---------------------------------------------------------------------------
(* Server.handleMetrics, server.go lines 33-62 *)

\* the orders in which "for _, m := range s.store.Metrics" can visit the map
RangeOrders(map) ==
    {order \in [1..Cardinality(DOMAIN map) -> DOMAIN map] :
        \A i, j \in DOMAIN order : i # j => order[i] # order[j]}

\* a plausible slip: the first entry skipped
ListMetricsSkipFirst(map, order) == [i \in 1..(Len(order) - 1) |-> map[order[i + 1]]]

\* lines 46-50: the *Metric of every entry, in the order of the range
ListMetrics(map, order) == [i \in 1..Len(order) |-> map[order[i]]]

\* the m of the loop of lines 54-56, when i snapshots are taken
LoopMetric(metrics, i) == IF i < Len(metrics) THEN metrics[i + 1] ELSE NullRef

\* the request arrives; lines 39-43: only GET is served
HandleMetrics(t, method) ==
    /\ Free(t)
    /\ IF method # "GET"
       THEN /\ req' = [req EXCEPT ![t] = Answer("handleMetrics", 405, <<>>)]
            /\ th' = [th EXCEPT ![t] = IdleThread]
       ELSE /\ req' = [req EXCEPT ![t] = [NoRequest EXCEPT
                           !.h = "handleMetrics", !.hpc = "run"]]
            /\ th' = [th EXCEPT ![t] = [IdleThread EXCEPT !.pc = "list_rlock"]]
    /\ UNCHANGED <<now, Metrics, storeMu, heap, hist>>
    /\ UNCHANGED <<MetricsNil, pctVars>>

\* line 45: s.store.mu.RLock()
HandleMetricsRLock(t) ==
    /\ At(t, "list_rlock")
    /\ RLockable(storeMu)
    /\ storeMu' = [storeMu EXCEPT !.r = @ \cup {t}]
    /\ th' = [th EXCEPT ![t].pc = "list_body"]
    /\ UNCHANGED <<now, Metrics, heap, hist>>
    /\ UNCHANGED <<req, MetricsNil, pctVars>>

\* lines 46-51: the Metrics are collected, then s.store.mu.RUnlock()
HandleMetricsList(t) ==
    /\ At(t, "list_body")
    /\ \E order \in RangeOrders(Metrics) :
         LET metrics == ListMetrics(Metrics, order)
         IN  /\ req' = [req EXCEPT ![t].metrics = metrics]
             /\ th' = [th EXCEPT ![t] = [IdleThread EXCEPT
                           !.ref = LoopMetric(metrics, 0)]]
    /\ storeMu' = RUnlock(storeMu, t)
    /\ UNCHANGED <<now, Metrics, heap, hist>>
    /\ UNCHANGED <<MetricsNil, pctVars>>

\* line 55: m.CalculateLatency()
HandleMetricsCalculate(t) ==
    /\ InHandler(t, "handleMetrics")
    /\ th[t].op = "none"
    /\ Len(req[t].snapshots) < Len(req[t].metrics)
    /\ CallCalculateLatency(t)

\* line 55: snapshots = append(snapshots, ...), and the loop goes on
HandleMetricsAppend(t) ==
    /\ InHandler(t, "handleMetrics")
    /\ th[t].op = "CalculateLatency"
    /\ LET snapshots == Append(req[t].snapshots, th[t].snap)
       IN  /\ req' = [req EXCEPT ![t].snapshots = snapshots]
           /\ th' = [th EXCEPT ![t] = [IdleThread EXCEPT
                         !.ref = LoopMetric(req[t].metrics, Len(snapshots))]]
    /\ UNCHANGED <<now, Metrics, storeMu, heap, hist>>
    /\ UNCHANGED <<MetricsNil, pctVars>>

\* lines 58-61: the snapshots are written, with the implicit 200
HandleMetricsAnswer(t) ==
    /\ InHandler(t, "handleMetrics")
    /\ th[t].op = "none"
    /\ Len(req[t].snapshots) = Len(req[t].metrics)
    /\ req' = [req EXCEPT ![t] = Answer("handleMetrics", 200, req[t].snapshots)]
    /\ UNCHANGED <<now, Metrics, storeMu, heap, th, hist>>
    /\ UNCHANGED <<MetricsNil, pctVars>>

---------------------------------------------------------------------------
(* The server: goroutines serving requests with the three handlers, on a    *)
(* new store or on a store where CreateMetric registered two Metrics (as    *)
(* the tests of handleMetrics do).                                          *)

Methods == {"GET", "POST"}
Bodies == {InvalidJSON, JSONBody(0), JSONBody(-10), JSONBody(10)}

ServerInit ==
    /\ now = 0
    /\ storeMu = Unlocked
    /\ MetricsNil = FALSE
    /\ \/ /\ Metrics = EmptyMap
          /\ heap = <<>>
          /\ hist = <<>>
       \/ /\ Metrics = MapInsert(MapInsert(EmptyMap, "a", 1), "b", 2)
          /\ heap = <<NewMetric(MetricConfig("a", 1, 1), "CreateMetric"),
                      NewMetric(MetricConfig("b", 1, 1), "CreateMetric")>>
          /\ hist = <<(<<>>), (<<>>)>>
    /\ th = [t \in Threads |-> IdleThread]
    /\ req = [t \in DOMAIN th |-> NoRequest]
    /\ PctIdle

ServerNext ==
    \E t \in DOMAIN th :
        \/ \E id \in IDs, body \in Bodies : HandleRecordLatency(t, id, body)
        \/ HandleRecordLatencyGetOrCreate(t)
        \/ HandleRecordLatencyRecord(t)
        \/ HandleRecordLatencyAccepted(t)
        \/ \E id \in IDs : HandleGetMetric(t, id)
        \/ HandleGetMetricLookup(t)
        \/ HandleGetMetricNotFound(t)
        \/ HandleGetMetricCalculate(t)
        \/ HandleGetMetricAnswer(t)
        \/ \E method \in Methods : HandleMetrics(t, method)
        \/ HandleMetricsRLock(t)
        \/ HandleMetricsList(t)
        \/ HandleMetricsCalculate(t)
        \/ HandleMetricsAppend(t)
        \/ HandleMetricsAnswer(t)
        \/ GetRLock(t)
        \/ GetBody(t)
        \/ GetOrCreateLock(t)
        \/ GetOrCreateBody(t)
        \/ RecordLock(t)
        \/ RecordBody(t)
        \/ CalculateLock(t)
        \/ CalculateBody(t)
        \/ CalculateSnapshot(t)

ServerSpec == ServerInit /\ [][ServerNext]_vars

---------------------------------------------------------------------------
(* The program as main starts it: the store is &MetricStore{}, whose        *)
(* mapping is nil, and requests reach the handlers through the ServeMux.    *)
(* A path is the sequence of its segments: "/metrics/a/latency" is          *)
(* <<"metrics", "a", "latency">> and "/metrics/" is <<"metrics", "">>.      *)

RECURSIVE TrimLeft(_)
TrimLeft(segs) ==
    IF segs # <<>> /\ Head(segs) = "" THEN TrimLeft(Tail(segs)) ELSE segs

RECURSIVE TrimRight(_)
TrimRight(segs) ==
    IF segs # <<>> /\ segs[Len(segs)] = ""
    THEN TrimRight(SubSeq(segs, 1, Len(segs) - 1))
    ELSE segs

\* server.go line 69: strings.Split(strings.Trim(path, "/"), "/"); the path
\* starts with a slash, and splitting the empty string gives one empty
\* component
Comps(path) ==
    LET trimmed == TrimRight(TrimLeft(<<"">> \o path))
    IN  IF trimmed = <<>> THEN <<"">> ELSE trimmed

\* the answer of a request that reaches no handler of the program; its status
\* is the ServeMux's business
Unrouted == [NoRequest EXCEPT !.h = "ServeMux", !.hpc = "done"]

\* main's two patterns: "GET /metrics" is that path with that method,
\* "/metrics/" is every path under it with any method
Route(method, path) ==
    IF path = <<"metrics">>
    THEN IF method = "GET" THEN "handleMetrics" ELSE "ServeMux"
    ELSE IF Len(path) >= 2 /\ path[1] = "metrics"
         THEN "handleMetricsById"
         ELSE "ServeMux"

\* a handler answers at once, without calling the store
AnswerAtOnce(t, answer) ==
    /\ Free(t)
    /\ req' = [req EXCEPT ![t] = answer]
    /\ th' = [th EXCEPT ![t] = IdleThread]
    /\ UNCHANGED <<now, Metrics, storeMu, heap, hist>>
    /\ UNCHANGED <<MetricsNil, pctVars>>

\* server.go lines 67-89
HandleMetricsById(t, method, path, body) ==
    LET comps == Comps(path)
    IN  IF Len(comps) < 2
        THEN AnswerAtOnce(t, Answer("handleMetricsById", 404, <<>>))
        ELSE IF Len(comps) = 3 /\ comps[3] = "latency" /\ method = "POST"
        THEN HandleRecordLatency(t, comps[2], body)
        ELSE IF Len(comps) = 2 /\ method = "GET"
        THEN HandleGetMetric(t, comps[2])
        ELSE AnswerAtOnce(t, Answer("handleMetricsById", 404, <<>>))

\* the ServeMux hands the request to the handler of the matching pattern
Serve(t, method, path, body) ==
    LET h == Route(method, path)
    IN  IF h = "handleMetrics" THEN HandleMetrics(t, method)
        ELSE IF h = "handleMetricsById" THEN HandleMetricsById(t, method, path, body)
        ELSE AnswerAtOnce(t, Unrouted)

Paths ==
    {<<"metrics">>, <<"metrics", "">>, <<"other">>, <<"metrics", "a", "samples">>}
        \cup {<<"metrics", id>> : id \in IDs}
        \cup {<<"metrics", id, "">> : id \in IDs}
        \cup {<<"metrics", id, "latency">> : id \in IDs}

\* main, lines 10-11: store := &MetricStore{}
MainInit ==
    /\ now = 0
    /\ Metrics = EmptyMap
    /\ MetricsNil = TRUE
    /\ storeMu = Unlocked
    /\ heap = <<>>
    /\ hist = <<>>
    /\ th = [t \in Threads |-> IdleThread]
    /\ req = [t \in DOMAIN th |-> NoRequest]
    /\ PctIdle

MainNext ==
    \E t \in DOMAIN th :
        \/ \E method \in Methods, path \in Paths, body \in Bodies :
              Serve(t, method, path, body)
        \/ HandleRecordLatencyGetOrCreate(t)
        \/ HandleRecordLatencyRecord(t)
        \/ HandleRecordLatencyAccepted(t)
        \/ HandleGetMetricLookup(t)
        \/ HandleGetMetricNotFound(t)
        \/ HandleGetMetricCalculate(t)
        \/ HandleGetMetricAnswer(t)
        \/ HandleMetricsRLock(t)
        \/ HandleMetricsList(t)
        \/ HandleMetricsCalculate(t)
        \/ HandleMetricsAppend(t)
        \/ HandleMetricsAnswer(t)
        \/ GetRLock(t)
        \/ GetBody(t)
        \/ GetOrCreateLock(t)
        \/ GetOrCreateBody(t)
        \/ RecordLock(t)
        \/ RecordBody(t)
        \/ CalculateLock(t)
        \/ CalculateBody(t)
        \/ CalculateSnapshot(t)

MainSpec == MainInit /\ [][MainNext]_vars

---------------------------------------------------------------------------
(* The program: goroutines calling the store and the metrics they hold.     *)
(* The clock stands still here; MetricSpec lets it run.                     *)

\* the (window, max samples) pairs a caller gives CreateMetric
ConfigShapes == {<<1, 1>>, <<0, 1>>, <<1, 0>>}

Configs == {MetricConfig(id, wc[1], wc[2]) : id \in IDs, wc \in ConfigShapes}

\* the latencies a caller gives RecordLatency: one good, one bad
SomeLatencies == {10, 0}

Next ==
    \E t \in DOMAIN th :
        \/ \E config \in Configs : CallCreateMetric(t, config)
        \/ CreateLock(t)
        \/ CreateBody(t)
        \/ \E id \in IDs : CallGetMetric(t, id)
        \/ GetRLock(t)
        \/ GetBody(t)
        \/ \E id \in IDs : CallGetOrCreateMetric(t, id)
        \/ GetOrCreateLock(t)
        \/ GetOrCreateBody(t)
        \/ \E latency \in SomeLatencies : CallRecordLatency(t, latency)
        \/ RecordLock(t)
        \/ RecordBody(t)
        \/ CallCalculateLatency(t)
        \/ CalculateLock(t)
        \/ CalculateBody(t)
        \/ CalculateSnapshot(t)

Spec == Init /\ [][Next]_vars

---------------------------------------------------------------------------
(* The registry: goroutines calling CreateMetric, getMetric and             *)
(* getOrCreateMetric, and recording on the Metrics they got.                *)

RegistryLatency == 10

RegistryNext ==
    \E t \in DOMAIN th :
        \/ \E config \in Configs : CallCreateMetric(t, config)
        \/ CreateLock(t)
        \/ CreateBody(t)
        \/ \E id \in IDs : CallGetMetric(t, id)
        \/ GetRLock(t)
        \/ GetBody(t)
        \/ \E id \in IDs : CallGetOrCreateMetric(t, id)
        \/ GetOrCreateLock(t)
        \/ GetOrCreateBody(t)
        \/ CallRecordLatency(t, RegistryLatency)
        \/ RecordLock(t)
        \/ RecordBody(t)

RegistrySpec == Init /\ [][RegistryNext]_vars

---------------------------------------------------------------------------
(* One Metric, two goroutines holding it, and the clock: RecordLatency and  *)
(* CalculateLatency interleaved in every way.                               *)

\* the (window, max samples) pairs the Metric is created with
MetricShapes == {<<1, 1>>, <<1, 2>>, <<DefaultWindow, DefaultMaxSamples>>}

\* the store after CreateMetric(config) on a new store, the Metric handed to
\* every goroutine
MetricInit ==
    /\ now = 0
    /\ storeMu = Unlocked
    /\ MetricsNil = FALSE
    /\ \E wc \in MetricShapes : heap = <<NewMetric(MetricConfig("a", wc[1], wc[2]), "CreateMetric")>>
    /\ Metrics = MapInsert(EmptyMap, "a", 1)
    /\ th = [t \in Threads |-> [IdleThread EXCEPT !.ref = 1]]
    /\ req = [t \in DOMAIN th |-> NoRequest]
    /\ hist = <<(<<>>)>>
    /\ PctIdle

MetricNext ==
    \/ Tick
    \/ \E t \in DOMAIN th :
        \/ \E latency \in Latencies \cup BadLatencies : CallRecordLatency(t, latency)
        \/ RecordLock(t)
        \/ RecordBody(t)
        \/ CallCalculateLatency(t)
        \/ CalculateLock(t)
        \/ CalculateBody(t)
        \/ CalculateSnapshot(t)

MetricSpec == MetricInit /\ [][MetricNext]_vars

---------------------------------------------------------------------------
(* Callers racing on one unseen identifier: each calls getOrCreateMetric    *)
(* and records one latency on the Metric it got, as handleRecordLatency     *)
(* does (server.go lines 105-106).                                          *)

Callers == {"g1", "g2", "g3"}
TheId == "a"

\* a new store, or a store where another identifier was registered before
SameIdInit ==
    /\ now = 0
    /\ storeMu = Unlocked
    /\ MetricsNil = FALSE
    /\ \/ /\ Metrics = EmptyMap
          /\ heap = <<>>
          /\ hist = <<>>
       \/ /\ Metrics = MapInsert(EmptyMap, "b", 1)
          /\ heap = <<NewMetric(defaultMetricConfig("b"), "getOrCreateMetric")>>
          /\ hist = <<(<<>>)>>
    /\ th = [t \in Callers |-> IdleThread]
    /\ req = [t \in DOMAIN th |-> NoRequest]
    /\ PctIdle

SameIdNext ==
    \E t \in DOMAIN th :
        \/ th[t].op = "none" /\ CallGetOrCreateMetric(t, TheId)
        \/ GetOrCreateLock(t)
        \/ GetOrCreateBody(t)
        \/ /\ th[t].op = "getOrCreateMetric"
           /\ \E latency \in Latencies : CallRecordLatency(t, latency)
        \/ RecordLock(t)
        \/ RecordBody(t)

SameIdSpec == SameIdInit /\ [][SameIdNext]_vars

---------------------------------------------------------------------------
(* One Metric: a goroutine records one latency and then asks for the        *)
(* snapshot, while another goroutine records other latencies and the clock  *)
(* runs.                                                                    *)

Writer == "g1"
WriterLatency == 10
OtherLatencies == {20, 30}

ReadBackNext ==
    \/ Tick
    \/ CallRecordLatency(Writer, WriterLatency)
    \/ CallCalculateLatency(Writer)
    \/ \E t \in DOMAIN th \ {Writer} :
          \E latency \in OtherLatencies : CallRecordLatency(t, latency)
    \/ \E t \in DOMAIN th :
        \/ RecordLock(t)
        \/ RecordBody(t)
        \/ CalculateLock(t)
        \/ CalculateBody(t)
        \/ CalculateSnapshot(t)

ReadBackSpec == MetricInit /\ [][ReadBackNext]_vars

---------------------------------------------------------------------------
(* Progress: goroutines calling every operation of the store and of the     *)
(* Metric, and handleMetrics for the listing, under fair scheduling.  A     *)
(* call is started only when the bounds of the model leave room for it to   *)
(* finish.                                                                  *)

\* calls in flight that may still allocate a Metric
Allocating ==
    {t \in DOMAIN th :
        th[t].pc \in {"create_lock", "create_body", "goc_lock", "goc_body"}}

RoomToAllocate == Len(heap) + Cardinality(Allocating) < MaxLiveObjs

\* the goroutine is not inside a handler
Direct(t) == req[t].hpc # "run"

\* at most MaxLiveRecords samples are appended
RoomToRecord == TotalLen(hist) + Cardinality(Appending) < MaxLiveRecords

LiveIDs == {"a"}
LiveConfigs == {MetricConfig(id, 1, 1) : id \in LiveIDs}

\* the steps of goroutine t that wait for a mutex
LockSteps(t) ==
    \/ CreateLock(t)
    \/ GetRLock(t)
    \/ GetOrCreateLock(t)
    \/ RecordLock(t)
    \/ CalculateLock(t)
    \/ HandleMetricsRLock(t)

\* the steps of goroutine t inside a call or a handler that wait for nothing
RunSteps(t) ==
    \/ CreateBody(t)
    \/ GetBody(t)
    \/ GetOrCreateBody(t)
    \/ RecordBody(t)
    \/ CalculateBody(t)
    \/ CalculateSnapshot(t)
    \/ HandleMetricsList(t)
    \/ HandleMetricsCalculate(t)
    \/ HandleMetricsAppend(t)
    \/ HandleMetricsAnswer(t)

\* the calls and requests that arrive
LiveCalls(t) ==
    \/ /\ RoomToAllocate
       /\ \E config \in LiveConfigs : CallCreateMetric(t, config)
    \/ \E id \in LiveIDs : CallGetMetric(t, id)
    \/ /\ RoomToAllocate
       /\ \E id \in LiveIDs : CallGetOrCreateMetric(t, id)
    \/ /\ RoomToRecord
       /\ CallRecordLatency(t, RegistryLatency)
    \/ CallCalculateLatency(t)
    \/ HandleMetrics(t, "GET")

LiveNext ==
    \E t \in DOMAIN th :
        \/ Direct(t) /\ LiveCalls(t)
        \/ LockSteps(t)
        \/ RunSteps(t)

\* the Go scheduler runs every runnable goroutine (weak fairness of its
\* steps); sync.Mutex hands the lock to a waiter that has been waiting long
\* (starvation mode), so a goroutine waiting for a mutex that is free again
\* and again gets it (strong fairness of the lock steps)
LiveFairness ==
    \A t \in Threads : WF_vars(RunSteps(t)) /\ SF_vars(LockSteps(t))

LiveSpec == Init /\ [][LiveNext]_vars /\ LiveFairness

---------------------------------------------------------------------------
(* The percentile engine on its own: computePercentile on a sorted slice,   *)
(* and the snapshot CalculateLatency builds from a set of active samples.   *)

RECURSIVE SeqsUpTo(_, _)
SeqsUpTo(S, n) ==
    IF n = 0 THEN {<<>>}
    ELSE LET shorter == SeqsUpTo(S, n - 1)
         IN  shorter \cup {Append(q, v) : q \in shorter, v \in S}

Ramp(n) == [i \in 1..n |-> i]

PctInputs == SeqsUpTo(Durations, MaxLen) \cup {Ramp(n) : n \in 1..MaxRamp}

\* active samples carrying the given latencies
SamplesOf(latencies) == [i \in 1..Len(latencies) |-> LatencySample(latencies[i], 0)]

PctInit ==
    /\ now = 0
    /\ createNewMetricStore
    /\ heap = <<>>
    /\ th = [t \in Threads |-> IdleThread]
    /\ req = [t \in DOMAIN th |-> NoRequest]
    /\ hist = <<>>
    /\ pctIn \in PctInputs
    /\ pctP = 0
    /\ pctOut = Nil
    /\ pctSnap = NoSnapshot
    /\ pctPc = "in"

\* storage.go lines 74-78: the slice is sorted, then computePercentile is called
PctCall ==
    /\ pctPc = "in"
    /\ \E p \in Percentiles :
         /\ pctP' = p
         /\ pctOut' = computePercentile(SortLatencies(pctIn), p)
    /\ pctSnap' = BuildSnapshot(defaultMetricConfig("a"), SamplesOf(pctIn))
    /\ pctPc' = "out"
    /\ UNCHANGED <<pctIn, now, Metrics, MetricsNil, storeMu, heap, th, hist, req>>

PctSpec == PctInit /\ [][PctCall]_vars

---------------------------------------------------------------------------
(* Properties *)

\* the goroutine took a step
Moved(t) == th'[t] # th[t]

\* the goroutine stands after a return from op
Returned(t, op) == At(t, "idle") /\ th[t].op = op

Addrs == 1..Len(heap)

Elems(seq) == {seq[i] : i \in 1..Len(seq)}

\* the last n elements of seq (all of it when it is shorter)
LastN(seq, n) ==
    IF Len(seq) <= n THEN seq ELSE SubSeq(seq, Len(seq) - n + 1, Len(seq))

Min(a, b) == IF a <= b THEN a ELSE b

\* ceil(p * N / 100), in integers
ExactRank(p, N) == (p * N + 99) \div 100

\* the k-th smallest of latencies: at least k of them are <= it, fewer than k
\* are below it
OrderStatistic(latencies, k) ==
    CHOOSE v \in Elems(latencies) :
        /\ Cardinality({i \in 1..Len(latencies) : latencies[i] <= v}) >= k
        /\ Cardinality({i \in 1..Len(latencies) : latencies[i] < v}) < k

\* the nearest-rank percentile of latencies, in exact arithmetic
NearestRank(latencies, p) == OrderStatistic(latencies, ExactRank(p, Len(latencies)))

LatenciesOf(samples) == [i \in 1..Len(samples) |-> samples[i].LatencyVal]

(* C1: callers racing on getOrCreateMetric for one unseen identifier all get *)
(* the Metric that the registry holds for it afterwards, and that Metric     *)
(* holds one sample for every caller whose RecordLatency has returned (N     *)
(* samples once all N callers are done).                                     *)
C1_Recorded == {t \in DOMAIN th : Returned(t, "RecordLatency") /\ th[t].ok}

C1_SameInstanceAllSamples ==
    /\ \A t \in DOMAIN th :
         th[t].ref # NullRef =>
            /\ TheId \in DOMAIN Metrics
            /\ Metrics[TheId] = th[t].ref
    /\ TheId \in DOMAIN Metrics =>
         /\ Len(heap[Metrics[TheId]].Samples) = Cardinality(C1_Recorded)
         /\ heap[Metrics[TheId]].Samples = hist[Metrics[TheId]]

C1_Witness ==
    /\ C1_Recorded = Callers
    /\ TheId \in DOMAIN Metrics
    /\ Len(heap[Metrics[TheId]].Samples) = Cardinality(Callers)

(* C2: getOrCreateMetric for an identifier that is not registered keeps      *)
(* every entry of the mapping as it was and only adds the entry for id.      *)
C2_InsertKeepsEntries ==
    [][\A t \in DOMAIN th :
          (At(t, "goc_body") /\ Moved(t) /\ th[t].id \notin DOMAIN Metrics) =>
             /\ DOMAIN Metrics' = DOMAIN Metrics \cup {th[t].id}
             /\ \A j \in DOMAIN Metrics : Metrics'[j] = Metrics[j]]_vars

(* C3: for an identifier CreateMetric was never called with, every sample    *)
(* accepted on a Metric that getOrCreateMetric returned for it is held by    *)
(* the Metric registered for it now (fewer than MaxSamples samples are ever  *)
(* recorded, so none is evicted), and the identifier is registered.          *)
C3_CreatedIds == {heap[a].Config.ID : a \in {b \in Addrs : heap[b].by = "CreateMetric"}}

C3_NoDataLost ==
    \A a \in Addrs :
        (heap[a].by = "getOrCreateMetric" /\ heap[a].Config.ID \notin C3_CreatedIds) =>
            /\ heap[a].Config.ID \in DOMAIN Metrics
            /\ Elems(hist[a]) \subseteq Elems(heap[Metrics[heap[a].Config.ID]].Samples)

(* C4: the stored samples of a Metric are never more than MaxSamples, and    *)
(* they are the min(k, MaxSamples) last of the k samples RecordLatency       *)
(* appended, in the order of appending.                                      *)
C4_FifoCap ==
    \A a \in Addrs :
        /\ Len(heap[a].Samples) <= heap[a].Config.MaxSamples
        /\ heap[a].Samples =
             LastN(hist[a], Min(Len(hist[a]), heap[a].Config.MaxSamples))

C4_Witness ==
    \E a \in Addrs :
        /\ Len(hist[a]) > heap[a].Config.MaxSamples
        /\ Len(heap[a].Samples) = 2
        /\ heap[a].Samples[1].LatencyVal # heap[a].Samples[2].LatencyVal

(* C5: RecordLatency with latency <= 0 returns false at once and leaves the   *)
(* stored samples of every Metric as they were; no goroutine ever goes on to *)
(* append such a latency and no such sample is ever stored.                  *)
C5_RejectedCall(t) ==
    /\ At(t, "idle")
    /\ Moved(t)
    /\ th'[t].op = "RecordLatency"
    /\ th'[t].lat <= 0

C5_NonPositiveRejected ==
    /\ [][\A t \in DOMAIN th :
            C5_RejectedCall(t) =>
               /\ th'[t].pc = "idle"
               /\ ~th'[t].ok
               /\ heap' = heap]_vars
    /\ [](\A a \in Addrs : \A i \in 1..Len(hist[a]) : hist[a][i].LatencyVal > 0)

C5_Witness ==
    \E t \in DOMAIN th :
        /\ Returned(t, "RecordLatency")
        /\ th[t].lat = 0
        /\ ~th[t].ok
        /\ heap[th[t].ref].Samples = <<>>

(* C6: CalculateLatency keeps exactly the stored samples with                *)
(* now < RecordedAt + Window, now being the instant of the query, in stored  *)
(* order, and the snapshot's count is their number; the sample with          *)
(* RecordedAt + Window = now is left out.                                    *)
C6_InWindow(t, record) ==
    th[t].at < record.RecordedAt + heap[th[t].m].Config.Window

C6_WindowExclusive ==
    [][\A t \in DOMAIN th :
          /\ (At(t, "calc_body") /\ Moved(t)) =>
                th'[t].active =
                    SelectSeq(heap[th[t].m].Samples, LAMBDA r : C6_InWindow(t, r))
          /\ (At(t, "calc_snap") /\ Moved(t)) =>
                th'[t].snap.Count = Len(th[t].active)]_vars

C6_Witness ==
    \E t \in DOMAIN th :
        /\ At(t, "calc_snap")
        /\ \E i \in 1..Len(heap[th[t].m].Samples) :
             /\ heap[th[t].m].Samples[i].RecordedAt + heap[th[t].m].Config.Window = th[t].at
             /\ heap[th[t].m].Samples[i] \notin Elems(th[t].active)

(* C7: with at least one active sample, the snapshot's count is the number   *)
(* of active samples and P50, P95, P99 are the nearest-rank percentiles of   *)
(* the active latencies sorted ascending, in whatever order they were        *)
(* recorded; 10, 20, 30 recorded in any order give 3, 20, 30, 30.            *)
C7_NearestRankSnapshot ==
    [][\A t \in DOMAIN th :
          (At(t, "calc_snap") /\ Moved(t) /\ th[t].active # <<>>) =>
             LET latencies == LatenciesOf(th[t].active)
             IN  /\ th'[t].snap.Count = Len(th[t].active)
                 /\ th'[t].snap.P50 = Ptr(NearestRank(latencies, 50))
                 /\ th'[t].snap.P95 = Ptr(NearestRank(latencies, 95))
                 /\ th'[t].snap.P99 = Ptr(NearestRank(latencies, 99))]_vars

C7_Witness ==
    \E t \in DOMAIN th :
        /\ Returned(t, "CalculateLatency")
        /\ LatenciesOf(heap[th[t].ref].Samples) = <<30, 10, 20>>
        /\ th[t].snap.Count = 3
        /\ th[t].snap.P50 = Ptr(20)
        /\ th[t].snap.P95 = Ptr(30)
        /\ th[t].snap.P99 = Ptr(30)

(* C8: on a sorted slice of N >= 1 durations and p in 1..100,                *)
(* computePercentile returns the element at index ceil(p*N/100) - 1, which   *)
(* is within the slice; it returns nil exactly for the empty slice.          *)
C8_ExactNearestRank ==
    (pctPc = "out" /\ pctP >= 1) =>
        /\ pctOut.isNil <=> pctIn = <<>>
        /\ pctIn # <<>> =>
             /\ ExactRank(pctP, Len(pctIn)) \in 1..Len(pctIn)
             /\ pctOut = Ptr(NearestRank(pctIn, pctP))

(* C9: on a fixed sorted slice computePercentile never decreases when p      *)
(* grows, and every snapshot with data has P50 <= P95 <= P99.                *)
C9_MonotonicInP ==
    (pctPc = "out" /\ pctP >= 1 /\ pctIn # <<>>) =>
        /\ \A p2 \in pctP..100 :
             pctOut.val <= computePercentile(SortLatencies(pctIn), p2).val
        /\ pctSnap.P50.val <= pctSnap.P95.val
        /\ pctSnap.P95.val <= pctSnap.P99.val

C9_Witness ==
    /\ pctPc = "out"
    /\ pctP = 50
    /\ Len(pctIn) = 3
    /\ pctOut.val < computePercentile(SortLatencies(pctIn), 95).val
    /\ pctSnap.P50.val < pctSnap.P99.val

(* C10: in every snapshot P50, P95 and P99 are all nil when the count is 0   *)
(* and all present when it is at least 1; nil is no duration value.          *)
C10_Snapshots == {th[t].snap : t \in {u \in DOMAIN th : Returned(u, "CalculateLatency")}}

C10_AbsentIffNoData ==
    \A snap \in C10_Snapshots :
        /\ snap.Count >= 0
        /\ snap.Count = 0 => (snap.P50 = Nil /\ snap.P95 = Nil /\ snap.P99 = Nil)
        /\ snap.Count >= 1 => (~snap.P50.isNil /\ ~snap.P95.isNil /\ ~snap.P99.isNil)

C10_Witness ==
    \E t \in DOMAIN th :
        /\ Returned(t, "CalculateLatency")
        /\ hist[th[t].ref] = <<>>
        /\ th[t].snap.Count = 0
        /\ th[t].snap.P50 = Nil /\ th[t].snap.P95 = Nil /\ th[t].snap.P99 = Nil

(* C11: when a RecordLatency(L), L > 0, has returned and the goroutine then  *)
(* starts CalculateLatency on the same Metric at an instant before the      *)
(* sample's RecordedAt + Window, the snapshot has count >= 1; when that     *)
(* sample is the only active one, P50 = P95 = P99 = L.  The Writer is the   *)
(* only goroutine recording WriterLatency and it calls one function at a    *)
(* time, so every such sample in the history was appended by a call that    *)
(* returned before the Writer's snapshot started.                           *)
C11_WritersSamples(m) ==
    {i \in 1..Len(hist[m]) : hist[m][i].LatencyVal = WriterLatency}

C11_VisibleAfterReturn ==
    [][(At(Writer, "calc_snap") /\ Moved(Writer)) =>
          LET m == th[Writer].m
              fresh == {i \in C11_WritersSamples(m) :
                          th[Writer].at < hist[m][i].RecordedAt + heap[m].Config.Window}
              snap == th'[Writer].snap
          IN  fresh # {} =>
                /\ snap.Count >= 1
                /\ LatenciesOf(th[Writer].active) = <<WriterLatency>> =>
                      /\ snap.P50 = Ptr(WriterLatency)
                      /\ snap.P95 = Ptr(WriterLatency)
                      /\ snap.P99 = Ptr(WriterLatency)]_vars

(* C12: CreateMetric with Window <= 0 or MaxSamples <= 0 returns an error    *)
(* and a nil Metric at once, without a step in which it could touch the     *)
(* registry: the mapping and every Metric are the same after the call, and  *)
(* no goroutine ever goes on to the insert with such a config.              *)
C12_RejectedCreate(t) ==
    /\ At(t, "idle")
    /\ Moved(t)
    /\ th'[t].op = "CreateMetric"
    /\ (th'[t].cfg.Window <= 0 \/ th'[t].cfg.MaxSamples <= 0)

C12_InvalidConfigRejected ==
    /\ [][\A t \in DOMAIN th :
            C12_RejectedCreate(t) =>
               /\ th'[t].pc = "idle"
               /\ ~th'[t].ok
               /\ th'[t].ref = NullRef
               /\ Metrics' = Metrics
               /\ heap' = heap]_vars
    /\ [](\A a \in Addrs : heap[a].by = "CreateMetric" =>
             (heap[a].Config.Window > 0 /\ heap[a].Config.MaxSamples > 0))

C12_Witness ==
    /\ Metrics # EmptyMap
    /\ \E t \in DOMAIN th :
         /\ Returned(t, "CreateMetric") /\ ~th[t].ok /\ th[t].ref = NullRef
         /\ th[t].cfg.Window <= 0
    /\ \E t \in DOMAIN th :
         /\ Returned(t, "CreateMetric") /\ ~th[t].ok /\ th[t].ref = NullRef
         /\ th[t].cfg.MaxSamples <= 0

(* C13: the insert of a successful CreateMetric(config) registers a Metric   *)
(* that did not exist before under config.ID, with no samples and with the  *)
(* given config, and returns it; a Metric registered under that identifier  *)
(* before is no longer in the mapping; every other identifier keeps its     *)
(* Metric and no existing Metric is changed.                                *)
C13_Registered(map) == {map[j] : j \in DOMAIN map}

C13_CreateOverwrites ==
    [][\A t \in DOMAIN th :
          (At(t, "create_body") /\ Moved(t)) =>
             LET id == th[t].cfg.ID
                 metric == th'[t].ref
             IN  /\ th'[t].ok
                 /\ metric \notin Addrs
                 /\ Lookup(Metrics', id) = [m |-> metric, ok |-> TRUE]
                 /\ heap'[metric].Samples = <<>>
                 /\ heap'[metric].Config = th[t].cfg
                 /\ id \in DOMAIN Metrics => Metrics[id] \notin C13_Registered(Metrics')
                 /\ DOMAIN Metrics' = DOMAIN Metrics \cup {id}
                 /\ \A j \in DOMAIN Metrics \ {id} : Metrics'[j] = Metrics[j]
                 /\ \A a \in Addrs : heap'[a] = heap[a]]_vars

C13_Witness ==
    \E t \in DOMAIN th :
        /\ Returned(t, "CreateMetric") /\ th[t].ok
        /\ Lookup(Metrics, heap[th[t].ref].Config.ID) = [m |-> th[t].ref, ok |-> TRUE]
        /\ heap[th[t].ref].Samples = <<>>
        /\ \E a \in Addrs \ C13_Registered(Metrics) :
             /\ heap[a].Config.ID = heap[th[t].ref].Config.ID
             /\ heap[a].Samples # <<>>

(* C14: getMetric(id) returns the Metric registered under id and true when  *)
(* id is in the mapping, nil and false otherwise; no step of getMetric      *)
(* changes the mapping or any Metric.                                       *)
C14_InGetMetric(t) ==
    \/ At(t, "idle") /\ th'[t].op = "getMetric"
    \/ At(t, "get_rlock")
    \/ At(t, "get_body")

C14_LookupReadsOnly ==
    [][\A t \in DOMAIN th :
          /\ (At(t, "get_body") /\ Moved(t)) =>
                /\ th'[t].pc = "idle"
                /\ th[t].id \in DOMAIN Metrics =>
                      (th'[t].found /\ th'[t].ref = Metrics[th[t].id])
                /\ th[t].id \notin DOMAIN Metrics =>
                      (~th'[t].found /\ th'[t].ref = NullRef)
          /\ (C14_InGetMetric(t) /\ Moved(t)) =>
                (Metrics' = Metrics /\ heap' = heap)]_vars

C14_Witness ==
    /\ \E t \in DOMAIN th :
         /\ Returned(t, "getMetric") /\ th[t].found
         /\ th[t].ref \in C13_Registered(Metrics)
         /\ heap[th[t].ref].Samples # <<>>
    /\ \E t \in DOMAIN th :
         /\ Returned(t, "getMetric") /\ ~th[t].found
         /\ th[t].ref = NullRef

(* C15: when handleRecordLatency answers a POST with a positive latency, it *)
(* answers 202, and at that moment the identifier of the request is         *)
(* registered and the Metric registered for it holds a sample with the      *)
(* posted latency.                                                          *)
C15_Answers(t) ==
    /\ InHandler(t, "handleRecordLatency")
    /\ th[t].op = "RecordLatency"
    /\ req'[t] # req[t]

C15_PostStoresSample ==
    [][\A t \in DOMAIN th :
          C15_Answers(t) =>
             /\ req'[t].status = 202
             /\ req[t].id \in DOMAIN Metrics
             /\ req[t].LatencyNs \in
                   Elems(LatenciesOf(heap[Metrics[req[t].id]].Samples))]_vars

(* C16: handleRecordLatency answers 400 to a body that is not JSON or whose  *)
(* latency is <= 0, in its first step and without calling the store: the    *)
(* mapping and every Metric are as before, and no handler ever goes on to   *)
(* getOrCreateMetric or RecordLatency with such a latency.                  *)
C16_BadBodies == {body \in Bodies : ~body.json \/ body.latency_ns <= 0}

C16_BadRequestRejected ==
    /\ [][\A t \in DOMAIN th : \A id \in IDs : \A body \in C16_BadBodies :
            HandleRecordLatency(t, id, body) =>
               /\ req'[t].status = 400
               /\ req'[t].hpc = "done"
               /\ At(t, "idle")'
               /\ Metrics' = Metrics
               /\ heap' = heap]_vars
    /\ [](\A t \in DOMAIN th :
             (req[t].h = "handleRecordLatency" /\ req[t].hpc = "run") =>
                 req[t].LatencyNs > 0)

C16_Witness ==
    /\ Metrics = EmptyMap
    /\ heap = <<>>
    /\ \A t \in DOMAIN th : req[t] = Answer("handleRecordLatency", 400, <<>>)

(* C17: the listing of handleMetrics holds every Metric registered at that   *)
(* instant exactly once; the answer is 200 with one snapshot per listed      *)
(* Metric, in the order of the listing and carrying that Metric's            *)
(* identifier (none for an empty store); a request that is not a GET is      *)
(* answered 405 in its first step, without taking the registry lock.         *)
C17_Answers(t) ==
    /\ InHandler(t, "handleMetrics")
    /\ th[t].op = "none"
    /\ req'[t].hpc = "done"

C17_OneSnapshotPerMetric ==
    [][\A t \in DOMAIN th :
          /\ (At(t, "list_body") /\ Moved(t)) =>
                LET metrics == req'[t].metrics
                IN  /\ Elems(metrics) = C13_Registered(Metrics)
                    /\ Len(metrics) = Cardinality(DOMAIN Metrics)
                    /\ Len(metrics) = Cardinality(Elems(metrics))
          /\ C17_Answers(t) =>
                /\ req'[t].status = 200
                /\ Len(req'[t].snapshots) = Len(req[t].metrics)
                /\ \A i \in 1..Len(req[t].metrics) :
                      req'[t].snapshots[i].MetricID = heap[req[t].metrics[i]].Config.ID
          /\ \A method \in Methods \ {"GET"} :
                HandleMetrics(t, method) =>
                   /\ req'[t].status = 405
                   /\ req'[t].hpc = "done"
                   /\ At(t, "idle")'
                   /\ storeMu' = storeMu]_vars

C17_Witness ==
    /\ \E t \in DOMAIN th :
         /\ req[t].h = "handleMetrics" /\ req[t].status = 200
         /\ Len(req[t].snapshots) = 2
         /\ {req[t].snapshots[i].MetricID : i \in 1..2} = DOMAIN Metrics
         /\ \E i \in 1..2 : req[t].snapshots[i].Count = 1
    /\ \E t \in DOMAIN th :
         req[t] = Answer("handleMetrics", 405, <<>>)

(* C18: no goroutine holds the registry lock and the lock of a Metric at    *)
(* the same time (handleMetrics has released the read lock when its first   *)
(* CalculateLatency starts), and under fair scheduling every call of        *)
(* CreateMetric, getMetric, getOrCreateMetric, RecordLatency and            *)
(* CalculateLatency returns and every handleMetrics answers.                *)
C18_HoldsRegistry(t) == storeMu.w = t \/ t \in storeMu.r

C18_HoldsMetric(t) == \E a \in Addrs : heap[a].mu = t

C18_NoNesting ==
    \A t \in DOMAIN th : ~(C18_HoldsRegistry(t) /\ C18_HoldsMetric(t))

\* the goroutine is inside a call or inside a handler
C18_Busy(t) == th[t].pc # "idle" \/ req[t].hpc = "run"

C18_NoNestingAndProgress ==
    /\ []C18_NoNesting
    /\ \A t \in Threads : C18_Busy(t) ~> ~C18_Busy(t)

C18_Witness ==
    \E t, u \in DOMAIN th :
        /\ At(t, "get_body")
        /\ C18_HoldsRegistry(t)
        /\ req[u].h = "handleMetrics"
        /\ req[u].hpc = "run"
        /\ Len(req[u].metrics) = 1
        /\ C18_HoldsMetric(u)

(* C19: CalculateLatency reads the stored samples in one step, under the    *)
(* lock: with k appends made on the Metric so far, it sees the last         *)
(* min(k, MaxSamples) of them (never MaxSamples + 1) and keeps those in the *)
(* window; appends made after that step leave what it has read as it is,    *)
(* and the snapshot is computed from what it has read.                      *)
C19_StoredAfter(appends, maxSamples) ==
    LastN(appends, Min(Len(appends), maxSamples))

C19_SnapshotAtOnePoint ==
    [][\A t \in DOMAIN th :
          /\ (At(t, "calc_body") /\ Moved(t)) =>
                LET m == th[t].m
                    stored == C19_StoredAfter(hist[m], heap[m].Config.MaxSamples)
                IN  th'[t].active =
                        SelectSeq(stored, LAMBDA r : r.RecordedAt > th[t].cutoff)
          /\ (At(t, "calc_snap") /\ ~Moved(t)) =>
                th'[t].active = th[t].active
          /\ (At(t, "calc_snap") /\ Moved(t)) =>
                /\ th'[t].snap.Count = Len(th[t].active)
                /\ th[t].active # <<>> =>
                      th'[t].snap.P50 = Ptr(NearestRank(LatenciesOf(th[t].active), 50))]_vars

C19_Witness ==
    \E t \in DOMAIN th :
        /\ At(t, "calc_snap")
        /\ Len(hist[th[t].m]) = 2
        /\ th[t].active = <<hist[th[t].m][1]>>
        /\ heap[th[t].m].Samples = <<hist[th[t].m][2]>>
        /\ hist[th[t].m][1].LatencyVal # hist[th[t].m][2].LatencyVal

(* C20: a goroutine reads or writes a Metric's samples only while it holds  *)
(* that Metric's lock, writes the mapping only while it holds the registry  *)
(* lock exclusively and reads it only while it holds the read lock; at most *)
(* one goroutine is in a section that writes, and none reads meanwhile;     *)
(* samples and mapping change in those sections only.                       *)
C20_OnSamples(a) ==
    {t \in DOMAIN th : th[t].pc \in {"rec_body", "calc_body"} /\ th[t].m = a}

C20_MapWriters == {t \in DOMAIN th : th[t].pc \in {"create_body", "goc_body"}}

C20_MapReaders == {t \in DOMAIN th : th[t].pc \in {"get_body", "list_body"}}

C20_Exclusive ==
    /\ \A a \in Addrs : C20_OnSamples(a) \subseteq {heap[a].mu}
    /\ C20_MapWriters \subseteq {storeMu.w}
    /\ C20_MapReaders \subseteq storeMu.r
    /\ C20_MapWriters # {} => C20_MapReaders = {}

C20_WrittenInSection ==
    /\ \A a \in Addrs :
         heap'[a].Samples # heap[a].Samples =>
            \E t \in C20_OnSamples(a) : th[t].pc = "rec_body" /\ Moved(t)
    /\ Metrics' # Metrics =>
         \E u \in C20_MapWriters : Moved(u)

C20_AccessUnderLock ==
    /\ []C20_Exclusive
    /\ [][C20_WrittenInSection]_vars

C20_Witness ==
    \E t, u \in DOMAIN th :
        /\ th[t].pc = "rec_body"
        /\ th[u].pc = "calc_lock"
        /\ th[u].m = th[t].m
        /\ req[u].h = "handleMetrics"

(* C21: getOrCreateMetric(id) for a registered id returns the Metric          *)
(* registered under id and changes neither the mapping nor any Metric       *)
(* (config and samples included).                                           *)
C21_FoundKeepsAll ==
    [][\A t \in DOMAIN th :
          (At(t, "goc_body") /\ Moved(t) /\ th[t].id \in DOMAIN Metrics) =>
             /\ th'[t].pc = "idle"
             /\ th'[t].ref = Metrics[th[t].id]
             /\ Metrics' = Metrics
             /\ Len(heap') = Len(heap)
             /\ \A a \in Addrs : /\ heap'[a].Config = heap[a].Config
                                 /\ heap'[a].Samples = heap[a].Samples]_vars

C21_Witness ==
    \E t \in DOMAIN th :
        /\ Returned(t, "getOrCreateMetric")
        /\ th[t].ref \in C13_Registered(Metrics)
        /\ heap[th[t].ref].by = "CreateMetric"
        /\ heap[th[t].ref].Samples # <<>>

(* C22: CalculateLatency never changes the stored samples of a Metric; a    *)
(* stored sample leaves storage only in RecordLatency, as the head, when    *)
(* the append finds MaxSamples samples stored, whatever its age.            *)
C22_InCalculate(t) ==
    \/ th[t].pc \in {"calc_lock", "calc_body", "calc_snap"}
    \/ th'[t].pc = "calc_lock"

C22_CapEviction(a) ==
    \E t \in DOMAIN th :
        /\ At(t, "rec_body") /\ Moved(t) /\ th[t].m = a
        /\ Len(heap[a].Samples) = heap[a].Config.MaxSamples
        /\ heap'[a].Samples =
              Tail(Append(heap[a].Samples, LatencySample(th[t].lat, th[t].ts)))

C22_PlainAppend(a) ==
    \E t \in DOMAIN th :
        /\ At(t, "rec_body") /\ Moved(t) /\ th[t].m = a
        /\ Len(heap[a].Samples) < heap[a].Config.MaxSamples
        /\ heap'[a].Samples =
              Append(heap[a].Samples, LatencySample(th[t].lat, th[t].ts))

C22_SnapshotReadsOnly ==
    [][/\ \A t \in DOMAIN th :
             (Moved(t) /\ C22_InCalculate(t)) =>
                 \A a \in Addrs : heap'[a].Samples = heap[a].Samples
       /\ \A a \in Addrs :
             \/ heap'[a].Samples = heap[a].Samples
             \/ C22_PlainAppend(a)
             \/ C22_CapEviction(a)]_vars

\* a snapshot that left out a stored sample which is outside the window, the
\* sample still stored
C22_Witness ==
    \E t \in DOMAIN th :
        /\ At(t, "calc_snap")
        /\ th[t].active = <<>>
        /\ \E i \in 1..Len(heap[th[t].m].Samples) :
              ~After(heap[th[t].m].Samples[i].RecordedAt, th[t].cutoff)

(* C23: every Metric registered in the store has Window > 0 and            *)
(* MaxSamples > 0, one made by getOrCreateMetric has Window = one minute   *)
(* and MaxSamples = 100, and no step changes the Config of a Metric.       *)
C23_ValidConfig(m) ==
    /\ heap[m].Config.Window > 0
    /\ heap[m].Config.MaxSamples > 0
    /\ heap[m].by = "getOrCreateMetric" =>
          /\ heap[m].Config.Window = DefaultWindow
          /\ heap[m].Config.MaxSamples = DefaultMaxSamples

C23_ConfigKept ==
    \A a \in Addrs : heap'[a].Config = heap[a].Config

C23_ConfigValidAndFixed ==
    /\ [](\A m \in C13_Registered(Metrics) : C23_ValidConfig(m))
    /\ [][C23_ConfigKept]_vars

\* both makers have registered a Metric, and the one made by
\* getOrCreateMetric has been recorded on
C23_Witness ==
    \E m1, m2 \in C13_Registered(Metrics) :
        /\ heap[m1].by = "CreateMetric"
        /\ heap[m2].by = "getOrCreateMetric"
        /\ heap[m2].Samples # <<>>

(* C24: the stored samples of every Metric are in non-decreasing           *)
(* RecordedAt order, so that the head, which the MaxSamples cap evicts,    *)
(* has the earliest timestamp of the stored samples.                       *)
C24_InTimeOrder(samples) ==
    \A i, j \in 1..Len(samples) :
        i < j => samples[i].RecordedAt <= samples[j].RecordedAt

C24_SamplesInTimeOrder ==
    \A a \in Addrs : C24_InTimeOrder(heap[a].Samples)

(* C25: from the store main constructs, whose mapping is nil, no request   *)
(* sequence makes a goroutine write to the nil mapping (and panic): the    *)
(* mapping holds an entry only once it has been made.                      *)
C25_NoNilMapWrite ==
    /\ \A t \in DOMAIN th : ~At(t, "panic")
    /\ MetricsNil => Metrics = EmptyMap

\* a POST /metrics/{id}/latency was accepted: the mapping has been made and
\* written, and a GET /metrics has listed it
C25_Witness ==
    /\ ~MetricsNil
    /\ Metrics # EmptyMap
    /\ \E t, u \in DOMAIN th :
          /\ req[t].h = "handleRecordLatency" /\ req[t].status = 202
          /\ req[u].h = "handleMetrics" /\ req[u].status = 200
          /\ req[u].snapshots # <<>>

===========================================================================
